---- MODULE Spec2Model ----
(***************************************************************************)
(* A model of src/app.py: the hospital shift application.  The state is    *)
(* the tables of the spreadsheet store (draft_schedule, draft_requirements,*)
(* the change-request sheet, the leave-request sheet, the log sheet,       *)
(* system_config) and the administrator's session (st.session_state).      *)
(*                                                                         *)
(* Conventions.  A date is a record [y, m, d].  A column label of the      *)
(* schedule matrix ("month/day", app.py:1103) is a pair <<m, d>>.  A cell  *)
(* of a stored sheet is the string "1" or "0" (load_data casts every cell  *)
(* to str, app.py:125); a cell of the solver's result is the integer 1 or  *)
(* 0 (app.py:1103).  Months are shortened to num_days days so that the     *)
(* state space is finite and small.                                        *)
(***************************************************************************)
EXTENDS Integers, Sequences, FiniteSets, TLC

VARIABLES
    \* --- the spreadsheet store (one variable per sheet)
    cfg_phase,           \* system_config: the value of key current_phase
    draft_schedule,      \* sheet draft_schedule: name -> (label -> "1"/"0"); <<>> when empty
    draft_requirements,  \* sheet draft_requirements: sequence of rows [date, count]
    req_chg,             \* sheet of change requests: sequence of rows
    req_off,             \* sheet of leave requests: sequence of rows
    log_sheet,           \* sheet of the history log: sequence of rows [date, cells]
    \* --- the administrator's session (st.session_state and widgets)
    system_phase,        \* st.session_state.system_phase
    proc_year,           \* st.session_state.proc_year
    proc_month,          \* st.session_state.proc_month
    num_days,            \* calendar.monthrange(year, month)[1], shortened
    master_staff,        \* st.session_state.master_staff: the roster rows
    master_ph,           \* st.session_state.master_ph: the public-holiday dates
    master_log,          \* st.session_state.master_log: the session's copy of the log
    req_off_data,        \* st.session_state.req_off_data: the session's copy of req_off
    edited_req_df,       \* the requirement plan in the data editor: day index -> count
    schedule_df,         \* st.session_state.schedule_df: name -> (label -> 1/0); <<>> is None
    solves,              \* how many times the solve button was pressed
    req_holidays_in,     \* the required-holidays input read by the last solve
    daily_reqs,          \* st.session_state.daily_reqs: the plan read by the last solve (app.py:1004)
    \* --- what the last operation showed
    msg,                 \* the st.success / st.error / st.info message of the last operation
    lottery,             \* the record of the last lottery run (inputs, order, logs, result)
    store_faulty,        \* whether a write to the store can fail in this run
    faults,              \* how many operations have had a failed write so far
    \* --- a direct call of the feasibility checker
    cdc_args,            \* arguments of the last direct check_daily_constraints call
    cdc_ret,             \* its return value <<is_ok, reason>>
    \* --- the administrator's script run in progress
    run_chg              \* the change-request table that run has read; <<>> when none

store_vars   == <<cfg_phase, draft_schedule, draft_requirements, req_chg, req_off, log_sheet>>
session_vars == <<system_phase, proc_year, proc_month, num_days, master_staff, master_ph,
                  master_log, req_off_data, edited_req_df, schedule_df, solves,
                  req_holidays_in, daily_reqs>>
vars == <<store_vars, session_vars, msg, lottery, store_faulty, faults, cdc_args, cdc_ret,
          run_chg>>

NoDay == -1              \* current_day_idx=None (app.py:317)

(***************************************************************************)
(* Bounds of the model.                                                    *)
(***************************************************************************)
MaxRequired == 3         \* largest plan value drawn for a direct check
NumDays == 2             \* days of the month in the workflow specifications
MaxReqs == 2             \* rows the change-request sheet can hold
MaxReqHolidays == 1      \* largest value drawn for the required-holidays input
SolveDays == 5           \* days of the month when the solver is checked on its own
MaxSolves == 2           \* how many times the solve button is pressed in a run at most
WorkflowSolves == 1      \* how many times it is pressed in a run of the workflow
SolverSolves == 1        \* how many times it is pressed in a run on drawn solver inputs
MaxFaults == 1           \* how many operations of a run can have a failed write
MaxLeave == 1            \* leave requests submitted in a run

(***************************************************************************)
(* Program constants.                                                      *)
(***************************************************************************)
DefaultRequired == 4     \* app.py:325, 327, 946, 1038

\* Reasons returned by check_daily_constraints (app.py:330-335).
ReasonUnderstaffed == "NinzuBusoku"       \* "人数不足(必要..人 -> 現在..人)"
ReasonJp           == "NihongoBusoku"     \* "日本語話者不足"
ReasonEn           == "EigoBusoku"        \* "英語話者不足"
ReasonVet          == "VeteranBusoku"     \* "ベテラン不足"
ReasonOK           == "OK"

(***************************************************************************)
(* Small helpers for Python's dict.get and list comprehensions.            *)
(***************************************************************************)
Get(map, key, default) == IF key \in DOMAIN map THEN map[key] ELSE default

EmptyMap == [k \in {} |-> 0]

\* get_staff_list / admin_screen: the rows of the roster with role 'staff'.
StaffRows(roster) == SelectSeq(roster, LAMBDA s : s.role = "staff")

get_staff_list == StaffRows(master_staff)

(***************************************************************************)
(* check_daily_constraints (app.py:317-335).                               *)
(***************************************************************************)
working_staffs(staffs_list, shift_column) ==
    SelectSeq(staffs_list, LAMBDA s : Get(shift_column, s.name, "0") = "1")

required_of(required_count_map, current_day_idx) ==
    IF required_count_map # EmptyMap /\ current_day_idx # NoDay
    THEN Get(required_count_map, current_day_idx, DefaultRequired)
    ELSE DefaultRequired

\* The checker failing a day whose count equals the minimum.
check_daily_constraints_strict(staffs_list, shift_column, required_count_map, current_day_idx) ==
    LET ws       == working_staffs(staffs_list, shift_column)
        required == required_of(required_count_map, current_day_idx)
    IN  IF Len(ws) <= required THEN <<FALSE, ReasonUnderstaffed>>
        ELSE IF Len(SelectSeq(ws, LAMBDA s : s.jp)) < 1 THEN <<FALSE, ReasonJp>>
        ELSE IF Len(SelectSeq(ws, LAMBDA s : s.en)) < 1 THEN <<FALSE, ReasonEn>>
        ELSE IF Len(SelectSeq(ws, LAMBDA s : s.vet)) < 1 THEN <<FALSE, ReasonVet>>
        ELSE <<TRUE, ReasonOK>>

check_daily_constraints(staffs_list, shift_column, required_count_map, current_day_idx) ==
    LET ws       == working_staffs(staffs_list, shift_column)
        required == required_of(required_count_map, current_day_idx)
    IN  IF Len(ws) < required THEN <<FALSE, ReasonUnderstaffed>>
        ELSE IF Len(SelectSeq(ws, LAMBDA s : s.jp)) < 1 THEN <<FALSE, ReasonJp>>
        ELSE IF Len(SelectSeq(ws, LAMBDA s : s.en)) < 1 THEN <<FALSE, ReasonEn>>
        ELSE IF Len(SelectSeq(ws, LAMBDA s : s.vet)) < 1 THEN <<FALSE, ReasonVet>>
        ELSE <<TRUE, ReasonOK>>

(***************************************************************************)
(* Calendar.  Every month of the model has nd days; a date is [y, m, d].   *)
(***************************************************************************)
DateOrd(date, nd) == (date.y * 12 + (date.m - 1)) * nd + (date.d - 1)

OrdDate(o, nd) == [y |-> o \div (12 * nd), m |-> ((o \div nd) % 12) + 1, d |-> (o % nd) + 1]

\* date - datetime.timedelta(days=i)
MinusDays(date, i, nd) == OrdDate(DateOrd(date, nd) - i, nd)

\* f"{month}/{d+1}" (app.py:1103) and f"{dt.month}/{dt.day}" (app.py:1193, 1264)
ColLabel(month, day) == <<month, day>>

\* pd.to_datetime(f"{year}/{col}").date() (app.py:524, 592, 1293)
LabelDate(year, col) == [y |-> year, m |-> col[1], d |-> col[2]]

\* Status and kind values of the request sheets.
StRequested == "shinsei"        \* "申請"
StApproved  == "shonin"         \* "承認"
StRejected  == "kyakka"         \* "却下"
StCancelled == "torikeshi"      \* "取り消し"
KindAdd     == "shukkin_kibo"   \* "出勤希望"
KindReduce  == "yasumi_kibo"    \* "休み希望"

\* int(cell) of a log cell (app.py:993)
CellInt(c) == IF c = "1" THEN 1 ELSE 0

\* str(value) of a solver value when the frame is uploaded and read back (app.py:125)
CellStr(v) == IF v = 1 THEN "1" ELSE "0"

RECURSIVE SumTo(_, _)
SumTo(f, k) == IF k < 0 THEN 0 ELSE f[k] + SumTo(f, k - 1)

(***************************************************************************)
(* admin_screen: the inputs of the solver (app.py:845-864, 896-902,        *)
(* 971-1001).                                                              *)
(***************************************************************************)
staffs == StaffRows(master_staff)

all_staff == 1 .. Len(staffs)

all_days == 0 .. (num_days - 1)

StaffNames == {staffs[i].name : i \in all_staff}

\* staff_name_to_index (app.py:853)
staff_name_to_index(nm) == CHOOSE i \in all_staff : staffs[i].name = nm

\* ph_indices (app.py:856-864)
ph_indices == {r.d - 1 : r \in {x \in master_ph : x.y = proc_year /\ x.m = proc_month}}

\* The cells forced to rest by the leave requests (app.py:899-902, 1019-1026).
leave_cells ==
    {<<staff_name_to_index(req_off_data[k].name), req_off_data[k].date.d - 1>> :
        k \in {j \in 1 .. Len(req_off_data) :
                 /\ req_off_data[j].status # StCancelled
                 /\ req_off_data[j].date.y = proc_year
                 /\ req_off_data[j].date.m = proc_month
                 /\ req_off_data[j].name \in StaffNames}}

\* current_req_map (app.py:971-975)
current_req_map == edited_req_df

is_dec == (proc_month = 12)

\* prev_month_history (app.py:981-995): the last 4 days before the month.
prev_month_history ==
    [c \in all_staff \X {-4, -3, -2, -1} |->
        LET td == MinusDays([y |-> proc_year, m |-> proc_month, d |-> 1], -c[2], num_days)
            r  == SelectSeq(master_log, LAMBDA row : row.date = td)
        IN  IF r # <<>>
            THEN (IF staffs[c[1]].name \in DOMAIN r[1].cells
                  THEN CellInt(r[1].cells[staffs[c[1]].name]) ELSE 0)
            ELSE 0]

\* past_holidays_count (app.py:982, 996-1000)
past_holidays_count ==
    [nm \in StaffNames |->
        Len(SelectSeq(master_log, LAMBDA row :
              /\ row.date.y = proc_year
              /\ row.date.m # proc_month
              /\ nm \in DOMAIN row.cells
              /\ row.cells[nm] = "0"))]

(***************************************************************************)
(* The constraint model of the solver (app.py:1009-1093): its hard         *)
(* constraints.  A row is one staff member's shifts, day index -> 0/1.     *)
(***************************************************************************)
\* gsv with the days before the month taken as rest whatever the log says.
gsv_no_history(row, s_i, d_i) ==
    IF d_i < 0 THEN 0
    ELSE IF d_i < num_days THEN row[d_i]
    ELSE 0

\* gsv (app.py:1067-1070)
gsv(row, s_i, d_i) ==
    IF d_i < 0 THEN prev_month_history[<<s_i, d_i>>]
    ELSE IF d_i < num_days THEN row[d_i]
    ELSE 0

\* app.py:1016-1017
HolidayRest(row) == \A d \in ph_indices \cap all_days : row[d] = 0

\* The leave requests left out of the model.
LeaveRestNone(si, row) == TRUE

\* app.py:1019-1026
LeaveRest(si, row) == \A c \in leave_cells : c[1] = si => row[c[2]] = 0

\* app.py:1028-1030
JanuaryForced(row) ==
    (proc_month = 1 /\ num_days >= 4 /\ 3 \notin ph_indices) => row[3] = 1

\* No rest days required of a December solve.
ned_none(si) == 0

\* ned (app.py:1053-1056)
ned(si) ==
    LET tgt == staffs[si].holiday_target
        pst == past_holidays_count[staffs[si].name]
        rem == IF tgt - pst > 0 THEN tgt - pst ELSE 0
    IN  IF rem < num_days THEN rem ELSE num_days

\* The quota without the upper bound of a normal month.
HolidayQuotaNoUpper(si, row, req_holidays) ==
    LET off == num_days - SumTo(row, num_days - 1)
    IN  IF is_dec THEN off >= ned(si)
        ELSE off >= req_holidays

\* app.py:1049-1065
HolidayQuota(si, row, req_holidays) ==
    LET off == num_days - SumTo(row, num_days - 1)
    IN  IF is_dec THEN off >= ned(si)
        ELSE off >= req_holidays /\ off <= req_holidays + 1

\* app.py:1072-1075
RollingWindow(si, row) ==
    \A start \in -4 .. (num_days - 5) :
        gsv(row, si, start) + gsv(row, si, start + 1) + gsv(row, si, start + 2)
          + gsv(row, si, start + 3) + gsv(row, si, start + 4) <= 4

\* The constraint on isolated working days with day index 3 exempt in every
\* month.
NoIsolatedDayExempt3(row) ==
    \A d \in 1 .. (num_days - 2) :
        d = 3 \/ (row[d] = 1 => (row[d - 1] = 1 \/ row[d + 1] = 1))

\* app.py:1084-1086
NoIsolatedDay(row) ==
    \A d \in 1 .. (num_days - 2) :
        (proc_month = 1 /\ d = 3) \/ (row[d] = 1 => (row[d - 1] = 1 \/ row[d + 1] = 1))

RowOK(si, row, req_holidays) ==
    /\ HolidayRest(row)
    /\ LeaveRest(si, row)
    /\ JanuaryForced(row)
    /\ HolidayQuota(si, row, req_holidays)
    /\ RollingWindow(si, row)
    /\ NoIsolatedDay(row)

SolverRows(si, req_holidays) == {row \in [all_days -> {0, 1}] : RowOK(si, row, req_holidays)}

\* dw (app.py:1037)
dw(m, d) == Cardinality({s \in all_staff : m[s][d] = 1})

\* The headcount constraint without its upper bound.
HeadcountMinOnly(m, d) == dw(m, d) >= Get(current_req_map, d, DefaultRequired)

\* app.py:1038-1040
Headcount(m, d) ==
    LET min_req == Get(current_req_map, d, DefaultRequired)
    IN  dw(m, d) >= min_req /\ dw(m, d) <= min_req + 2

\* The coverage constraints without the one on English speakers.
CoverageNoEn(m, d) ==
    /\ \E s \in all_staff : staffs[s].jp /\ m[s][d] = 1
    /\ \E s \in all_staff : staffs[s].vet /\ m[s][d] = 1

\* app.py:1045-1047
Coverage(m, d) ==
    /\ \E s \in all_staff : staffs[s].jp /\ m[s][d] = 1
    /\ \E s \in all_staff : staffs[s].en /\ m[s][d] = 1
    /\ \E s \in all_staff : staffs[s].vet /\ m[s][d] = 1

\* app.py:1034-1047
DayOK(m, d) ==
    \/ d \in ph_indices
    \/ (proc_month = 1 /\ d = 3)
    \/ (Headcount(m, d) /\ Coverage(m, d))

RECURSIVE RowProduct(_, _)
RowProduct(k, req_holidays) ==
    IF k = 0 THEN {<<>>}
    ELSE LET rows == SolverRows(k, req_holidays)
         IN  {Append(p, r) : p \in RowProduct(k - 1, req_holidays), r \in rows}

\* The assignments solver.Solve can return with status OPTIMAL or FEASIBLE
\* (app.py:1098-1100): those that satisfy every hard constraint.
AcceptedSchedules(req_holidays) ==
    {m \in RowProduct(Len(staffs), req_holidays) : \A d \in all_days : DayOK(m, d)}

\* df_res (app.py:1101-1104)
ResultFrame(m) ==
    [nm \in StaffNames |->
        [col \in {ColLabel(proc_month, d + 1) : d \in all_days} |->
            m[staff_name_to_index(nm)][col[2] - 1]]]

(***************************************************************************)
(* Data frames.  A frame is a function name -> (label -> cell); the empty  *)
(* frame (and None) is <<>>.                                               *)
(***************************************************************************)
NoFrame == <<>>

FrameIndex(df) == DOMAIN df

FrameColumns(df) == IF df = NoFrame THEN {} ELSE DOMAIN df[CHOOSE nm \in DOMAIN df : TRUE]

\* df[col].to_dict() (app.py:595, 1271)
ColumnDict(df, col) == [nm \in FrameIndex(df) |-> df[nm][col]]

\* save_data("draft_schedule", upload_df) followed by load_data: every cell a str
UploadFrame(df) == [nm \in DOMAIN df |-> [col \in DOMAIN df[nm] |-> CellStr(df[nm][col])]]

SetMax(S) == CHOOSE x \in S : \A y \in S : y <= x

SetMin(S) == CHOOSE x \in S : \A y \in S : x <= y

\* Whether a write succeeds: always, unless the run has a faulty store.
WriteOutcomes == IF store_faulty /\ faults < MaxFaults THEN BOOLEAN ELSE {TRUE}

\* The count of operations with a failed write, after an operation with these outcomes.
Faulted(oks) == IF \E i \in DOMAIN oks : ~oks[i] THEN faults + 1 ELSE faults

(***************************************************************************)
(* The phases (app.py:50, 725).                                            *)
(***************************************************************************)
PhaseNormal    == "0_tsujo"            \* "0_通常"
PhaseAddition  == "1_tsuika_shinsei"   \* "1_追加申請"
PhaseReduction == "2_sakugen_shinsei"  \* "2_削減申請"

phase_options == {PhaseNormal, PhaseAddition, PhaseReduction}

(***************************************************************************)
(* req_map (app.py:444-452, 1252-1260): the plan read from the sheet       *)
(* draft_requirements for the target year and month.                       *)
(***************************************************************************)
req_map_of(rows, year, month) ==
    LET js == {j \in 1 .. Len(rows) : rows[j].date.y = year /\ rows[j].date.m = month}
    IN  [d \in {rows[j].date.d - 1 : j \in js} |->
            rows[SetMax({j \in js : rows[j].date.d - 1 = d})].count]

req_map == req_map_of(draft_requirements, proc_year, proc_month)

(***************************************************************************)
(* staff_screen (app.py:392-630).                                          *)
(***************************************************************************)
\* my_active_reqs (app.py:431-442): indices of the user's rows not cancelled
my_active_reqs(user_name) ==
    {j \in 1 .. Len(req_chg) :
        /\ req_chg[j].name = user_name
        /\ req_chg[j].status # StCancelled
        /\ req_chg[j].date.y = proc_year
        /\ req_chg[j].date.m = proc_month}

requested_dates(user_name, kind) ==
    {req_chg[j].date : j \in {i \in my_active_reqs(user_name) : req_chg[i].kind = kind}}

\* rest_days (app.py:520-527)
rest_days(user_name) ==
    {col \in FrameColumns(draft_schedule) :
        /\ draft_schedule[user_name][col] = "0"
        /\ LabelDate(proc_year, col) \notin requested_dates(user_name, KindAdd)}

\* available_rest_options (app.py:588-600)
available_rest_options(user_name) ==
    {col \in FrameColumns(draft_schedule) :
        /\ draft_schedule[user_name][col] # "0"
        /\ LabelDate(proc_year, col) \notin requested_dates(user_name, KindReduce)
        /\ LET d_obj    == LabelDate(proc_year, col)
               day_idx  == d_obj.d - 1
               col_data == [ColumnDict(draft_schedule, col) EXCEPT ![user_name] = "0"]
           IN  check_daily_constraints(get_staff_list, col_data, req_map, day_idx)[1]}

\* The timestamp of a new row: the clock has second resolution, so a new row
\* carries the second of the previous row or a later one (app.py:539, 612).
LastTs == IF req_chg = <<>> THEN 0 ELSE req_chg[Len(req_chg)].ts

NewRow(ts, user_name, d_obj, kind) ==
    [ts |-> ts, name |-> user_name, date |-> d_obj, kind |-> kind, status |-> StRequested]

\* append_row_data (app.py:169-178)
append_row_data(sheet, row, ok) == IF ok THEN Append(sheet, row) ELSE sheet

\* update_cell_value(sheet, row_idx, 6, value) (app.py:180-188): the status cell
update_cell_value(sheet, j, value, ok) ==
    IF ok THEN [sheet EXCEPT ![j].status = value] ELSE sheet

(***************************************************************************)
(* update_log_sheet (app.py:190-210).                                      *)
(***************************************************************************)
DateLess(a, b) ==
    \/ a.y < b.y
    \/ (a.y = b.y /\ a.m < b.m)
    \/ (a.y = b.y /\ a.m = b.m /\ a.d < b.d)

RECURSIVE InsertRow(_, _)
InsertRow(sorted, row) ==
    IF sorted = <<>> THEN <<row>>
    ELSE IF DateLess(row.date, Head(sorted).date) THEN <<row>> \o sorted
    ELSE <<Head(sorted)>> \o InsertRow(Tail(sorted), row)

\* combined.sort_values('日付')
RECURSIVE sort_values(_)
sort_values(rows) ==
    IF rows = <<>> THEN <<>>
    ELSE InsertRow(sort_values(SubSeq(rows, 1, Len(rows) - 1)), rows[Len(rows)])

\* update_log_sheet without the removal of the month's existing rows.
update_log_keep_all(current_df, new_df) == sort_values(current_df \o new_df)

update_log_rows(current_df, new_df) ==
    LET kept == IF new_df # <<>> /\ current_df # <<>>
                THEN SelectSeq(current_df, LAMBDA r :
                        ~(r.date.y = new_df[1].date.y /\ r.date.m = new_df[1].date.m))
                ELSE current_df
    IN  sort_values(kept \o new_df)

\* Whether a read of the store succeeds: always, unless the run has a faulty
\* store.  load_data answers a failed read with an empty frame (app.py:119, 131).
ReadOutcomes == IF store_faulty /\ faults < MaxFaults THEN BOOLEAN ELSE {TRUE}

\* ws.update(upload_data, 'A1') (app.py:146-150): the rows are written from the
\* top of the sheet, and the sheet is not cleared first.
ws_update(sheet, rows) == rows \o SubSeq(sheet, Len(rows) + 1, Len(sheet))

\* update_log_sheet (app.py:190-210) with the outcomes of its read and its write.
update_log_sheet(sheet, new_df, ok_read, ok_write) ==
    LET current_df == IF ok_read THEN sheet ELSE <<>>
        combined   == update_log_rows(current_df, new_df)
    IN  IF ok_write THEN ws_update(sheet, combined) ELSE sheet

(***************************************************************************)
(* admin_screen: the lottery loop (app.py:1250-1287).                      *)
(***************************************************************************)
\* The batch selected without the test on the status.
batch_any_status(kind) ==
    {j \in 1 .. Len(req_chg) :
        /\ req_chg[j].date.y = proc_year
        /\ req_chg[j].date.m = proc_month
        /\ req_chg[j].kind = kind}

\* reduce_reqs / target_reqs (app.py:1166-1171, 1224-1229): indices of the rows
batch(kind) ==
    {j \in 1 .. Len(req_chg) :
        /\ req_chg[j].date.y = proc_year
        /\ req_chg[j].date.m = proc_month
        /\ req_chg[j].kind = kind
        /\ req_chg[j].status = StRequested}

\* req_chg[req_chg['タイムスタンプ'] == ts_key].index[0] (app.py:1274)
row_idx_in_df(chg, ts_key) == SetMin({j \in 1 .. Len(chg) : chg[j].ts = ts_key})

\* The loop body judging every request against the persisted draft instead of
\* the schedule the earlier requests have already changed.
lottery_step_stale(st, j) ==
    LET r       == req_chg[j]
        nm      == r.name
        d_str   == ColLabel(r.date.m, r.date.d)
        day_idx == r.date.d - 1
    IN  IF nm \notin FrameIndex(st.df) \/ d_str \notin FrameColumns(st.df) THEN st
        ELSE IF st.df[nm][d_str] = "0" THEN st
        ELSE LET current_col == [ColumnDict(draft_schedule, d_str) EXCEPT ![nm] = "0"]
                 res == check_daily_constraints(staffs, current_col, req_map, day_idx)
                 k   == row_idx_in_df(st.chg, r.ts)
             IN  IF res[1]
                 THEN [df   |-> [st.df EXCEPT ![nm][d_str] = "0"],
                       chg  |-> [st.chg EXCEPT ![k].status = StApproved],
                       logs |-> Append(st.logs, [row |-> j, ok |-> TRUE, reason |-> res[2]])]
                 ELSE [df   |-> st.df,
                       chg  |-> [st.chg EXCEPT ![k].status = StRejected],
                       logs |-> Append(st.logs, [row |-> j, ok |-> FALSE, reason |-> res[2]])]

\* The loop body looking the day's minimum up by the day of the month instead
\* of the zero-based day index.
lottery_step_by_date(st, j) ==
    LET r       == req_chg[j]
        nm      == r.name
        d_str   == ColLabel(r.date.m, r.date.d)
        day_idx == r.date.d
    IN  IF nm \notin FrameIndex(st.df) \/ d_str \notin FrameColumns(st.df) THEN st
        ELSE IF st.df[nm][d_str] = "0" THEN st
        ELSE LET current_col == [ColumnDict(st.df, d_str) EXCEPT ![nm] = "0"]
                 res == check_daily_constraints(staffs, current_col, req_map, day_idx)
                 k   == row_idx_in_df(st.chg, r.ts)
             IN  IF res[1]
                 THEN [df   |-> [st.df EXCEPT ![nm][d_str] = "0"],
                       chg  |-> [st.chg EXCEPT ![k].status = StApproved],
                       logs |-> Append(st.logs, [row |-> j, ok |-> TRUE, reason |-> res[2]])]
                 ELSE [df   |-> st.df,
                       chg  |-> [st.chg EXCEPT ![k].status = StRejected],
                       logs |-> Append(st.logs, [row |-> j, ok |-> FALSE, reason |-> res[2]])]

\* One pass of the loop body for the request at row j of the sheet.
lottery_step(st, j) ==
    LET r       == req_chg[j]
        nm      == r.name
        d_str   == ColLabel(r.date.m, r.date.d)
        day_idx == r.date.d - 1
    IN  IF nm \notin FrameIndex(st.df) \/ d_str \notin FrameColumns(st.df) THEN st
        ELSE IF st.df[nm][d_str] = "0" THEN st
        ELSE LET current_col == [ColumnDict(st.df, d_str) EXCEPT ![nm] = "0"]
                 res == check_daily_constraints(staffs, current_col, req_map, day_idx)
                 k   == row_idx_in_df(st.chg, r.ts)
             IN  IF res[1]
                 THEN [df   |-> [st.df EXCEPT ![nm][d_str] = "0"],
                       chg  |-> [st.chg EXCEPT ![k].status = StApproved],
                       logs |-> Append(st.logs, [row |-> j, ok |-> TRUE, reason |-> res[2]])]
                 ELSE [df   |-> st.df,
                       chg  |-> [st.chg EXCEPT ![k].status = StRejected],
                       logs |-> Append(st.logs, [row |-> j, ok |-> FALSE, reason |-> res[2]])]

RECURSIVE lottery_loop(_, _)
lottery_loop(st, order) ==
    IF order = <<>> THEN st
    ELSE lottery_loop(lottery_step(st, Head(order)), Tail(order))

\* random.shuffle(reduce_reqs): every order of the batch
Shuffles(S) ==
    {f \in [1 .. Cardinality(S) -> S] : \A a, b \in 1 .. Cardinality(S) : a # b => f[a] # f[b]}

\* new_logs (app.py:1290-1299)
new_logs(df) ==
    LET cols == FrameColumns(df)
        ByDay(k) == CHOOSE c \in cols : Cardinality({x \in cols : DateLess(LabelDate(proc_year, x), LabelDate(proc_year, c))}) = k - 1
    IN  [k \in 1 .. Cardinality(cols) |->
            [date |-> LabelDate(proc_year, ByDay(k)), cells |-> ColumnDict(df, ByDay(k))]]

NoLottery == [ran |-> FALSE]

\* No script run of the administrator is between its read and its write.
NoRun == <<>>

(***************************************************************************)
(* The operations.                                                         *)
(***************************************************************************)
\* The required-holidays input (app.py:979): 0 in December; otherwise the
\* widget's value, drawn here from a range scaled to the shortened month.
ReqHolidayChoices == IF is_dec THEN {0} ELSE 0 .. MaxReqHolidays

untouched_by_session_ops == <<proc_year, proc_month, num_days, master_staff, master_ph,
                              edited_req_df, store_faulty, cdc_args, cdc_ret, run_chg>>

screen == <<msg, lottery>>

\* The button of app.py:1003-1108: build the model, solve, keep the result.
Solve ==
    /\ solves < MaxSolves
    /\ solves' = solves + 1
    /\ daily_reqs' = current_req_map
    /\ staffs # <<>>
    /\ \E req_holidays \in ReqHolidayChoices :
          /\ req_holidays_in' = req_holidays
          /\ \/ \E m \in AcceptedSchedules(req_holidays) :
                   /\ schedule_df' = ResultFrame(m)
                   /\ msg' = "SolveDone"
             \/ /\ schedule_df' = schedule_df
                /\ msg' = "SolveFailed"
    /\ lottery' = NoLottery
    /\ UNCHANGED <<store_vars, system_phase, master_log, req_off_data, faults,
                   untouched_by_session_ops>>

\* The button of app.py:1126-1135: save the draft and move to phase 1.
PublishDraft ==
    /\ schedule_df # NoFrame
    /\ \E ok_draft, ok_cfg \in WriteOutcomes :
          /\ draft_schedule' = IF ok_draft THEN UploadFrame(schedule_df) ELSE draft_schedule
          /\ cfg_phase' = IF ok_cfg THEN PhaseAddition ELSE cfg_phase
          /\ faults' = Faulted(<<ok_draft, ok_cfg>>)
    /\ system_phase' = PhaseAddition
    /\ schedule_df' = NoFrame
    /\ msg' = "Published"
    /\ lottery' = NoLottery
    /\ UNCHANGED <<draft_requirements, req_chg, req_off, log_sheet, master_log, req_off_data,
                   solves, req_holidays_in, daily_reqs, untouched_by_session_ops>>

\* The phase selector of the sidebar (app.py:724-736).
PhaseSelector ==
    /\ \E new_phase \in phase_options, ok_cfg \in WriteOutcomes :
          /\ new_phase # system_phase
          /\ cfg_phase' = IF ok_cfg THEN new_phase ELSE cfg_phase
          /\ faults' = Faulted(<<ok_cfg>>)
          /\ system_phase' = new_phase
    /\ msg' = "PhaseChanged"
    /\ lottery' = NoLottery
    /\ UNCHANGED <<draft_schedule, draft_requirements, req_chg, req_off, log_sheet, master_log,
                   req_off_data, schedule_df, solves, req_holidays_in, daily_reqs, untouched_by_session_ops>>

\* sync_all_data behind the refresh button (app.py:288-302, 694-698).
SyncAll ==
    /\ system_phase' = cfg_phase
    /\ master_log' = log_sheet
    /\ req_off_data' = req_off
    /\ msg' = "Synced"
    /\ lottery' = NoLottery
    /\ UNCHANGED <<store_vars, schedule_df, solves, req_holidays_in, daily_reqs, faults, untouched_by_session_ops>>

NewTimestamps == IF req_chg = <<>> THEN {1} ELSE {LastTs, LastTs + 1}

\* The leave request form (app.py:457-471): outside the normal phase the screen
\* shows a warning, and the form and its submit button stay as they are.  The
\* date input takes any date; the author and the day are drawn from LeaveUsers
\* and LeaveDays.
LeaveUsers == {"s2"}

LeaveDays == {NumDays}

SubmitLeave ==
    /\ Len(req_off) < MaxLeave
    /\ \E user_name \in LeaveUsers \cap StaffNames, d \in LeaveDays, ok \in WriteOutcomes :
          /\ req_off' = append_row_data(req_off,
                [name |-> user_name, date |-> [y |-> proc_year, m |-> proc_month, d |-> d],
                 status |-> StRequested], ok)
          /\ faults' = Faulted(<<ok>>)
    /\ UNCHANGED <<cfg_phase, draft_schedule, draft_requirements, req_chg, log_sheet,
                   session_vars, screen, store_faulty, cdc_args, cdc_ret, run_chg>>

\* A staff member's session shows the phase it read from the store.
\* The addition request form (app.py:500-542).
SubmitAddition ==
    /\ cfg_phase = PhaseAddition
    /\ draft_schedule # NoFrame
    /\ Len(req_chg) < MaxReqs
    /\ \E user_name \in StaffNames \cap FrameIndex(draft_schedule) :
         \E target_day_str \in rest_days(user_name), ts \in NewTimestamps, ok \in WriteOutcomes :
            /\ req_chg' = append_row_data(req_chg,
                  NewRow(ts, user_name, LabelDate(proc_year, target_day_str), KindAdd), ok)
            /\ faults' = Faulted(<<ok>>)
    /\ UNCHANGED <<cfg_phase, draft_schedule, draft_requirements, req_off, log_sheet,
                   session_vars, screen, store_faulty, cdc_args, cdc_ret, run_chg>>

\* The reduction request form (app.py:566-614).
SubmitReduction ==
    /\ cfg_phase = PhaseReduction
    /\ draft_schedule # NoFrame
    /\ Len(req_chg) < MaxReqs
    /\ \E user_name \in StaffNames \cap FrameIndex(draft_schedule) :
         \E target_day_str \in available_rest_options(user_name), ts \in NewTimestamps,
            ok \in WriteOutcomes :
            /\ req_chg' = append_row_data(req_chg,
                  NewRow(ts, user_name, LabelDate(proc_year, target_day_str), KindReduce), ok)
            /\ faults' = Faulted(<<ok>>)
    /\ UNCHANGED <<cfg_phase, draft_schedule, draft_requirements, req_off, log_sheet,
                   session_vars, screen, store_faulty, cdc_args, cdc_ret, run_chg>>

\* The cancel buttons of the two request lists (app.py:545-556, 617-630).
CancelRequest ==
    /\ draft_schedule # NoFrame
    /\ \E user_name \in StaffNames \cap FrameIndex(draft_schedule) :
         \E j \in my_active_reqs(user_name), ok \in WriteOutcomes :
            /\ \/ cfg_phase = PhaseAddition /\ req_chg[j].kind = KindAdd
               \/ cfg_phase = PhaseReduction /\ req_chg[j].kind = KindReduce
            /\ req_chg' = update_cell_value(req_chg, j, StCancelled, ok)
            /\ faults' = Faulted(<<ok>>)
    /\ UNCHANGED <<cfg_phase, draft_schedule, draft_requirements, req_off, log_sheet,
                   session_vars, screen, store_faulty, cdc_args, cdc_ret, run_chg>>

\* A merge that leaves every cell of the draft as it was.
merged_draft_unchanged(df, target_reqs) == df

\* df_draft after the loop of app.py:1190-1196
merged_draft(df, target_reqs) ==
    [nm \in FrameIndex(df) |->
        [col \in FrameColumns(df) |->
            IF \E j \in target_reqs :
                  req_chg[j].name = nm /\ ColLabel(req_chg[j].date.m, req_chg[j].date.d) = col
            THEN "1" ELSE df[nm][col]]]

\* req_chg after the loop of app.py:1202-1206
approved_additions(chg) ==
    [j \in 1 .. Len(chg) |->
        IF /\ chg[j].date.y = proc_year /\ chg[j].date.m = proc_month
           /\ chg[j].kind = KindAdd /\ chg[j].status = StRequested
        THEN [chg[j] EXCEPT !.status = StApproved] ELSE chg[j]]

\* The merge tab without its phase gate.
Phase1GateOpen == TRUE

\* The gate of tab_phase1 (app.py:1164) and of tab_phase2 (app.py:1222).
Phase1Gate == system_phase = PhaseAddition

Phase2Gate == system_phase = PhaseReduction

\* Tab 3 (app.py:1160-1215): merge the addition requests, move to phase 2.
MergeAdditions ==
    /\ IF ~Phase1Gate
       THEN /\ msg' = "Phase1Unavailable"
            /\ UNCHANGED <<store_vars, system_phase, faults>>
       ELSE IF draft_schedule = NoFrame
       THEN /\ msg' = "NoDraft"
            /\ UNCHANGED <<store_vars, system_phase, faults>>
       ELSE \E ok_draft, ok_chg, ok_cfg \in WriteOutcomes :
            LET target_reqs == batch(KindAdd)
            IN  /\ draft_schedule' = IF target_reqs # {} /\ ok_draft
                                     THEN merged_draft(draft_schedule, target_reqs)
                                     ELSE draft_schedule
                /\ req_chg' = IF target_reqs # {} /\ ok_chg
                              THEN approved_additions(req_chg) ELSE req_chg
                /\ cfg_phase' = IF ok_cfg THEN PhaseReduction ELSE cfg_phase
                /\ faults' = Faulted(<<target_reqs = {} \/ ok_draft, target_reqs = {} \/ ok_chg, ok_cfg>>)
                /\ system_phase' = PhaseReduction
                /\ msg' = "Merged"
                /\ UNCHANGED <<draft_requirements, req_off, log_sheet>>
    /\ lottery' = NoLottery
    /\ UNCHANGED <<master_log, req_off_data, schedule_df, solves, req_holidays_in, daily_reqs, untouched_by_session_ops>>

\* Tab 4 (app.py:1218-1320): lottery, fold into the log, clear, back to phase 0.
Finalize ==
    /\ IF ~Phase2Gate
       THEN /\ msg' = "Phase2Unavailable"
            /\ lottery' = NoLottery
            /\ UNCHANGED <<store_vars, system_phase, master_log, req_off_data, schedule_df, faults>>
       ELSE IF draft_schedule = NoFrame
       THEN /\ msg' = "NoDraftStop"
            /\ lottery' = NoLottery
            /\ UNCHANGED <<store_vars, system_phase, master_log, req_off_data, schedule_df, faults>>
       ELSE \E order \in Shuffles(batch(KindReduce)) :
            \E ok_chg, ok_log, ok_draft, ok_req, ok_cfg \in WriteOutcomes, ok_read \in ReadOutcomes :
            LET st1 == lottery_loop([df |-> draft_schedule, chg |-> req_chg, logs |-> <<>>], order)
            IN  /\ req_chg' = IF order # <<>> /\ ok_chg THEN st1.chg ELSE req_chg
                /\ log_sheet' = update_log_sheet(log_sheet, new_logs(st1.df), ok_read, ok_log)
                /\ draft_schedule' = IF ok_draft THEN NoFrame ELSE draft_schedule
                /\ draft_requirements' = IF ok_req THEN <<>> ELSE draft_requirements
                /\ cfg_phase' = IF ok_cfg THEN PhaseNormal ELSE cfg_phase
                /\ faults' = Faulted(<<order = <<>> \/ ok_chg, ok_read, ok_log, ok_draft, ok_req, ok_cfg>>)
                /\ schedule_df' = NoFrame
                \* sync_all_data (app.py:1312)
                /\ system_phase' = cfg_phase'
                /\ master_log' = log_sheet'
                /\ req_off_data' = req_off
                /\ msg' = "Finalized"
                /\ lottery' = [ran |-> TRUE, df0 |-> draft_schedule, chg0 |-> req_chg,
                               req_map0 |-> req_map, order |-> order,
                               logs |-> st1.logs, df1 |-> st1.df]
                /\ UNCHANGED req_off
    /\ UNCHANGED <<solves, req_holidays_in, daily_reqs, untouched_by_session_ops>>

(***************************************************************************)
(* The workflow specification: one administrator session, staff sessions,  *)
(* a store whose writes succeed.                                           *)
(***************************************************************************)
\* The roster: three schedulable staff and one administrator row.
Roster ==
    << [name |-> "s1", role |-> "staff", en |-> TRUE,  jp |-> TRUE,  vet |-> TRUE,  holiday_target |-> 1],
       [name |-> "s2", role |-> "staff", en |-> TRUE,  jp |-> FALSE, vet |-> FALSE, holiday_target |-> 1],
       [name |-> "admin", role |-> "admin", en |-> FALSE, jp |-> FALSE, vet |-> FALSE, holiday_target |-> 0],
       [name |-> "s3", role |-> "staff", en |-> FALSE, jp |-> TRUE,  vet |-> TRUE,  holiday_target |-> 1] >>

\* The plan sheet: one row per day of the target month.
PlanSheet(year, month, nd, first) ==
    [k \in 1 .. nd |-> [date |-> [y |-> year, m |-> month, d |-> k],
                        count |-> IF k = 1 THEN first ELSE 3]]

\* st.session_state[data_key] as first built from the sheet (app.py:927-948)
InitialEdited(sheet, year, month, nd) ==
    [d \in 0 .. (nd - 1) |->
        LET js == {j \in 1 .. Len(sheet) : sheet[j].date = [y |-> year, m |-> month, d |-> d + 1]}
        IN  IF js = {} THEN DefaultRequired ELSE sheet[SetMax(js)].count]

\* A log left by earlier months: the last day of the previous month and a stale
\* row of the target month.
PriorLog(year, month, nd) ==
    << [date |-> MinusDays([y |-> year, m |-> month, d |-> 1], 1, nd),
        cells |-> [nm \in {"s1", "s2", "s3"} |-> IF nm = "s2" THEN "0" ELSE "1"]],
       [date |-> [y |-> year, m |-> month, d |-> 1],
        cells |-> [nm \in {"s1", "s2", "s3"} |-> "0"]] >>

\* The state at login for a target month whose public holidays are ph.
InitWorkflowWith(faulty, ph) ==
    /\ cfg_phase = PhaseNormal
    /\ system_phase = PhaseNormal
    /\ proc_year = 2026
    /\ proc_month = 2
    /\ num_days = NumDays
    /\ draft_schedule = NoFrame
    /\ \E first \in {1, 2} : draft_requirements = PlanSheet(2026, 2, NumDays, first)
    /\ edited_req_df = InitialEdited(draft_requirements, 2026, 2, NumDays)
    /\ req_chg = <<>>
    /\ req_off = <<>>
    /\ log_sheet \in {<<>>, PriorLog(2026, 2, NumDays)}
    /\ master_staff = Roster
    /\ master_ph = ph
    /\ master_log = log_sheet
    /\ req_off_data = <<>>
    /\ schedule_df = NoFrame
    /\ solves = MaxSolves - WorkflowSolves
    /\ req_holidays_in = 0
    /\ daily_reqs = <<>>
    /\ msg = "Login"
    /\ lottery = NoLottery
    /\ store_faulty = faulty
    /\ faults = 0
    /\ cdc_args = <<>>
    /\ run_chg = NoRun
    /\ cdc_ret = <<>>

InitWorkflow(faulty) == InitWorkflowWith(faulty, {})

Init == InitWorkflow(FALSE)

Next ==
    \/ Solve
    \/ PublishDraft
    \/ PhaseSelector
    \/ SyncAll
    \/ SubmitLeave
    \/ SubmitAddition
    \/ SubmitReduction
    \/ CancelRequest
    \/ MergeAdditions
    \/ Finalize

Spec == Init /\ [][Next]_vars

\* The same operations over a store whose reads and writes can fail and that
\* already holds the log of earlier months.
InitFail == InitWorkflow(TRUE) /\ log_sheet # <<>>

SpecFail == InitFail /\ [][Next]_vars

\* The solve tab alone, with the button pressed up to MaxSolves times: solve,
\* solve again, publish.
InitResolve ==
    \E first \in {1, 2} :
        /\ cfg_phase = PhaseNormal
        /\ system_phase = PhaseNormal
        /\ proc_year = 2026
        /\ proc_month = 2
        /\ num_days = NumDays
        /\ draft_schedule = NoFrame
        /\ draft_requirements = PlanSheet(2026, 2, NumDays, first)
        /\ edited_req_df = InitialEdited(draft_requirements, 2026, 2, NumDays)
        /\ req_chg = <<>>
        /\ req_off = <<>>
        /\ log_sheet \in {<<>>, PriorLog(2026, 2, NumDays)}
        /\ master_staff = Roster
        /\ master_ph \in {{}, {[y |-> 2026, m |-> 2, d |-> NumDays]}}
        /\ master_log = log_sheet
        /\ req_off_data = <<>>
        /\ schedule_df = NoFrame
        /\ solves = 0
        /\ req_holidays_in = 0
        /\ daily_reqs = <<>>
        /\ msg = "Login"
        /\ lottery = NoLottery
        /\ store_faulty = FALSE
        /\ faults = 0
        /\ cdc_args = <<>>
        /\ run_chg = NoRun
        /\ cdc_ret = <<>>

NextResolve == Solve \/ PublishDraft

SpecResolve == InitResolve /\ [][NextResolve]_vars

\* The finalize tab alone, on drawn drafts and request sheets.  A draft is any
\* matrix whose days pass check_daily_constraints under the persisted plan (the
\* solver's result, with or without merged additions and earlier changes).  A
\* request row names a staff member of the draft or one who has left it, a day
\* of the target month or of the next one, either kind and any status short of
\* rejected; two rows can carry the same second.
LotteryFrames ==
    [{"s1", "s2", "s3"} -> [{ColLabel(2, k) : k \in 1 .. NumDays} -> {"0", "1"}]]

LotteryRows ==
    [ts : {0}, name : {"s2", "s3"}, date : {[y |-> 2026, m |-> 2, d |-> k] : k \in 1 .. NumDays},
     kind : {KindReduce, KindAdd}, status : {StRequested, StCancelled, StApproved}]
      \cup {[ts |-> 0, name |-> "s9", date |-> [y |-> 2026, m |-> 2, d |-> 1],
              kind |-> KindReduce, status |-> StRequested],
             [ts |-> 0, name |-> "s2", date |-> [y |-> 2026, m |-> 3, d |-> 1],
              kind |-> KindReduce, status |-> StRequested]}

LotterySheets ==
    {<<>>}
      \cup {<<[r EXCEPT !.ts = 1]>> : r \in LotteryRows}
      \cup {<<[r[1] EXCEPT !.ts = 1], [r[2] EXCEPT !.ts = t]>> :
                r \in LotteryRows \X LotteryRows, t \in {1, 2}}

InitLottery ==
    \E first \in {1, 2} :
        /\ cfg_phase = PhaseReduction
        /\ system_phase = PhaseReduction
        /\ proc_year = 2026
        /\ proc_month = 2
        /\ num_days = NumDays
        /\ draft_requirements = PlanSheet(2026, 2, NumDays, first)
        /\ edited_req_df = InitialEdited(draft_requirements, 2026, 2, NumDays)
        /\ master_staff = Roster
        /\ master_ph = {}
        /\ draft_schedule \in
              {df \in LotteryFrames :
                  \A col \in FrameColumns(df) :
                      check_daily_constraints(StaffRows(Roster), ColumnDict(df, col),
                          req_map_of(draft_requirements, 2026, 2), col[2] - 1)[1]}
        /\ req_chg \in LotterySheets
        /\ req_off = <<>>
        /\ log_sheet = PriorLog(2026, 2, NumDays)
        /\ master_log = log_sheet
        /\ req_off_data = <<>>
        /\ schedule_df = NoFrame
        /\ solves = 0
        /\ req_holidays_in = 0
        /\ daily_reqs = <<>>
        /\ msg = "Login"
        /\ lottery = NoLottery
        /\ store_faulty = FALSE
        /\ faults = 0
        /\ cdc_args = <<>>
        /\ run_chg = NoRun
        /\ cdc_ret = <<>>

NextLottery == Finalize

SpecLottery == InitLottery /\ [][NextLottery]_vars

\* The plan editor of the solve tab (app.py:945-955): the administrator changes
\* the required count of one day; the table lives in the session only.
PlanChoices == {1, 2}

EditPlan ==
    /\ \E d \in all_days, v \in PlanChoices :
          /\ Get(edited_req_df, d, DefaultRequired) # v
          /\ edited_req_df' = [dd \in DOMAIN edited_req_df \cup {d} |->
                                  IF dd = d THEN v ELSE edited_req_df[dd]]
    /\ UNCHANGED <<store_vars, system_phase, proc_year, proc_month, num_days, master_staff,
                   master_ph, master_log, req_off_data, schedule_df, solves, req_holidays_in,
                   daily_reqs, msg, lottery, store_faulty, faults, cdc_args, cdc_ret, run_chg>>

\* update_requirements_sheet (app.py:212-232)
update_requirements_sheet(current_df, new_df) ==
    LET kept == IF new_df # <<>> /\ current_df # <<>>
                THEN SelectSeq(current_df, LAMBDA r :
                        ~(r.date.y = new_df[1].date.y /\ r.date.m = new_df[1].date.m))
                ELSE current_df
    IN  sort_values(kept \o new_df)

\* The button that saves the plan (app.py:957-964).
SavePlan ==
    /\ \E ok \in WriteOutcomes :
          /\ draft_requirements' =
                IF ok THEN update_requirements_sheet(draft_requirements,
                              [k \in 1 .. num_days |->
                                  [date |-> [y |-> proc_year, m |-> proc_month, d |-> k],
                                   count |-> Get(edited_req_df, k - 1, DefaultRequired)]])
                ELSE draft_requirements
          /\ faults' = Faulted(<<ok>>)
          /\ msg' = IF ok THEN "PlanSaved" ELSE "PlanSaveError"
    /\ lottery' = NoLottery
    /\ UNCHANGED <<cfg_phase, draft_schedule, req_chg, req_off, log_sheet, session_vars,
                   store_faulty, cdc_args, cdc_ret, run_chg>>

\* The workflow with the plan editor: edit, save, solve, publish, merge, request
\* a reduction, finalize.
NextPlan ==
    \/ EditPlan
    \/ SavePlan
    \/ Solve
    \/ PublishDraft
    \/ MergeAdditions
    \/ SubmitReduction
    \/ Finalize

SpecPlan == Init /\ [][NextPlan]_vars

\* A second administrator session, just logged in (its copy of the phase is the
\* persisted one, app.py:260-264), uses the phase selector (app.py:724-736).
OtherAdminPhase ==
    /\ \E new_phase \in phase_options :
          /\ new_phase # cfg_phase
          /\ cfg_phase' = new_phase
    /\ UNCHANGED <<draft_schedule, draft_requirements, req_chg, req_off, log_sheet,
                   session_vars, msg, lottery, store_faulty, faults, cdc_args, cdc_ret, run_chg>>

\* The workflow with two administrator sessions.
NextAdmins ==
    \/ Solve
    \/ PublishDraft
    \/ PhaseSelector
    \/ SyncAll
    \/ SubmitLeave
    \/ SubmitAddition
    \/ SubmitReduction
    \/ CancelRequest
    \/ MergeAdditions
    \/ Finalize
    \/ OtherAdminPhase

SpecAdmins == Init /\ [][NextAdmins]_vars

\* The script run started by the merge button, up to its read of the
\* change-request table (app.py:1164-1171): the gate, load_data, target_reqs.
MergeRead ==
    /\ run_chg = NoRun
    /\ Phase1Gate
    /\ draft_schedule # NoFrame
    /\ run_chg' = <<req_chg>>
    /\ UNCHANGED <<store_vars, session_vars, msg, lottery, store_faulty, faults,
                   cdc_args, cdc_ret>>

\* target_reqs of that run (app.py:1166-1171), from the table it has read
run_target_reqs ==
    {j \in 1 .. Len(run_chg[1]) :
        /\ run_chg[1][j].date.y = proc_year
        /\ run_chg[1][j].date.m = proc_month
        /\ run_chg[1][j].kind = KindAdd
        /\ run_chg[1][j].status = StRequested}

\* df_draft after the loop of app.py:1190-1196 over that run's target_reqs
run_merged_draft(df) ==
    [nm \in FrameIndex(df) |->
        [col \in FrameColumns(df) |->
            IF \E j \in run_target_reqs :
                  /\ run_chg[1][j].name = nm
                  /\ ColLabel(run_chg[1][j].date.m, run_chg[1][j].date.d) = col
            THEN "1" ELSE df[nm][col]]]

\* The rest of that run (app.py:1183-1211): the draft is loaded, the requests
\* are merged, and the table read earlier is written back from the top of
\* the sheet.
MergeWrite ==
    /\ run_chg # NoRun
    /\ \E ok_draft, ok_chg, ok_cfg \in WriteOutcomes :
          /\ draft_schedule' = IF run_target_reqs # {} /\ ok_draft
                               THEN run_merged_draft(draft_schedule)
                               ELSE draft_schedule
          /\ req_chg' = IF run_target_reqs # {} /\ ok_chg
                        THEN ws_update(req_chg, approved_additions(run_chg[1]))
                        ELSE req_chg
          /\ cfg_phase' = IF ok_cfg THEN PhaseReduction ELSE cfg_phase
          /\ faults' = Faulted(<<run_target_reqs = {} \/ ok_draft,
                                 run_target_reqs = {} \/ ok_chg, ok_cfg>>)
    /\ system_phase' = PhaseReduction
    /\ msg' = "Merged"
    /\ lottery' = NoLottery
    /\ run_chg' = NoRun
    /\ UNCHANGED <<draft_requirements, req_off, log_sheet, master_log, req_off_data,
                   schedule_df, solves, req_holidays_in, daily_reqs, proc_year, proc_month,
                   num_days, master_staff, master_ph, edited_req_df, store_faulty,
                   cdc_args, cdc_ret>>

\* The addition phase with the merge run split at its read: staff sessions act
\* between the administrator's read and write-back.
NextRace ==
    \/ Solve
    \/ PublishDraft
    \/ SubmitAddition
    \/ CancelRequest
    \/ MergeRead
    \/ MergeWrite

SpecRace == Init /\ [][NextRace]_vars

\* The values offered to the date selector.
SelYears == {2026, 2027}

SelMonths == {2, 3}

\* The date selector of the sidebar (app.py:705-717): two update_single_config
\* calls, then a rerun in which the plan editor takes the table of the new
\* year and month (app.py:920-948).
DateSelector ==
    /\ \E sel_year \in SelYears, sel_month \in SelMonths, ok_y, ok_m \in WriteOutcomes :
          /\ proc_year' = sel_year
          /\ proc_month' = sel_month
          /\ edited_req_df' = IF sel_year = proc_year /\ sel_month = proc_month
                              THEN edited_req_df
                              ELSE InitialEdited(draft_requirements, sel_year, sel_month, num_days)
          /\ faults' = Faulted(<<ok_y, ok_m>>)
    /\ msg' = "DateChanged"
    /\ lottery' = NoLottery
    /\ UNCHANGED <<store_vars, system_phase, num_days, master_staff, master_ph, master_log,
                   req_off_data, schedule_df, solves, req_holidays_in, daily_reqs,
                   store_faulty, cdc_args, cdc_ret, run_chg>>

\* The administrator's operations with the date selector.
NextDates ==
    \/ Solve
    \/ PublishDraft
    \/ PhaseSelector
    \/ DateSelector
    \/ MergeAdditions
    \/ Finalize

SpecDates == Init /\ [][NextDates]_vars

\* The same operations for a month whose last day is a public holiday.
InitHoliday == InitWorkflowWith(FALSE, {[y |-> 2026, m |-> 2, d |-> NumDays]})

SpecHoliday == InitHoliday /\ [][Next]_vars

(***************************************************************************)
(* The properties.                                                         *)
(***************************************************************************)
\* The effect of each workflow step on the store, as seen in one transition.
PublishEffect ==
    /\ msg' = "Published"
    /\ schedule_df # NoFrame
    /\ draft_schedule' = UploadFrame(schedule_df)

MergeEffect ==
    /\ msg' = "Merged"
    /\ draft_schedule # NoFrame
    /\ \A j \in batch(KindAdd) : req_chg'[j].status = StApproved

FinalizeEffect ==
    /\ msg' = "Finalized"
    /\ draft_schedule # NoFrame
    /\ draft_schedule' = NoFrame
    /\ draft_requirements' = <<>>
    /\ log_sheet' # <<>>

\* C1: the persisted phase changes only by the three steps Normal -> Addition
\* (a solved draft is published), Addition -> Reduction (the additions are
\* merged) and Reduction -> Normal (the lottery is run and the month finalized),
\* each with its side effects, and no draft is published from a phase other
\* than Normal.
C1_ThreeStepsOnly ==
    [][ /\ cfg_phase' # cfg_phase =>
              \/ cfg_phase = PhaseNormal /\ cfg_phase' = PhaseAddition /\ PublishEffect
              \/ cfg_phase = PhaseAddition /\ cfg_phase' = PhaseReduction /\ MergeEffect
              \/ cfg_phase = PhaseReduction /\ cfg_phase' = PhaseNormal /\ FinalizeEffect
        /\ PublishEffect => cfg_phase = PhaseNormal ]_vars

\* C2: a merge attempt while the phase is not Addition, and a finalize attempt
\* while the phase is not Reduction, changes nothing in the store: the draft,
\* every change-request row, the history log, the plan and the phase.
C2_OutOfPhaseNoChange ==
    [][ /\ (MergeAdditions /\ (system_phase # PhaseAddition \/ cfg_phase # PhaseAddition))
              => UNCHANGED store_vars
        /\ (Finalize /\ (system_phase # PhaseReduction \/ cfg_phase # PhaseReduction))
              => UNCHANGED store_vars ]_vars

\* A merge was attempted outside the addition phase while a draft and a pending
\* addition request existed.
C2_Witness ==
    /\ msg = "Phase1Unavailable"
    /\ cfg_phase # PhaseAddition
    /\ draft_schedule # NoFrame
    /\ batch(KindAdd) # {}

\* The rows of the history log for the target month.
MonthRows(log) ==
    SelectSeq(log, LAMBDA r : r.date.y = proc_year /\ r.date.m = proc_month)

\* The request at row j of the sheet was decided by the last lottery with outcome ok.
Decided(j, ok) ==
    \E e \in 1 .. Len(lottery.logs) : lottery.logs[e].row = j /\ lottery.logs[e].ok = ok

\* The cell the log must hold: rest where an approved reduction points, else the
\* cell of the draft the lottery started from.
FoldedCell(nm, col) ==
    IF \E j \in 1 .. Len(lottery.chg0) :
          /\ Decided(j, TRUE)
          /\ lottery.chg0[j].name = nm
          /\ ColLabel(lottery.chg0[j].date.m, lottery.chg0[j].date.d) = col
    THEN "0" ELSE lottery.df0[nm][col]

\* C3: after a finalization the history log's rows for the target month are
\* exactly the draft with every approved reduction's cell flipped to rest, one
\* row per day and one column per staff member; the draft is empty, the plan
\* is empty and the phase is Normal.
C3_FinalizeFolds ==
    (msg = "Finalized" /\ lottery.ran) =>
        /\ Len(MonthRows(log_sheet)) = num_days
        /\ \A k \in 1 .. num_days :
              /\ MonthRows(log_sheet)[k].date = [y |-> proc_year, m |-> proc_month, d |-> k]
              /\ DOMAIN MonthRows(log_sheet)[k].cells = StaffNames
              /\ \A nm \in StaffNames :
                    MonthRows(log_sheet)[k].cells[nm] = FoldedCell(nm, ColLabel(proc_month, k))
        /\ draft_schedule = NoFrame
        /\ draft_requirements = <<>>
        /\ cfg_phase = PhaseNormal

\* A finalization with an approved reduction, over a log that already held a
\* row of the target month and a row of another month.
C3_Witness ==
    /\ msg = "Finalized"
    /\ lottery.ran
    /\ \E j \in 1 .. Len(lottery.chg0) : Decided(j, TRUE)
    /\ Len(log_sheet) > num_days
    /\ lottery.df1 # lottery.df0

\* C4 as the specification states it, over a store whose writes can fail: the
\* draft is never cleared and the phase never reset to Normal by a finalization
\* while the log lacks the month's final matrix, and no request status is
\* changed by the lottery while the draft and the phase remain un-finalized.
C4_AllOrNothing ==
    (msg = "Finalized" /\ lottery.ran) =>
        /\ (draft_schedule = NoFrame \/ cfg_phase = PhaseNormal)
              => MonthRows(log_sheet) = new_logs(lottery.df1)
        /\ ~ /\ \E j \in 1 .. Len(lottery.chg0) :
                    /\ lottery.chg0[j].status = StRequested
                    /\ req_chg[j].status \in {StApproved, StRejected}
             /\ draft_schedule # NoFrame
             /\ cfg_phase = PhaseReduction

\* C5: a merge run in the addition phase on a non-empty draft leaves every
\* addition request of the target month that was 'requested' as 'approved'
\* with its cell on duty in the persisted draft, and the phase is Reduction;
\* the merge marks no request approved whose cell is not on duty.
C5_MergeApproves ==
    [][ (MergeAdditions /\ cfg_phase = PhaseAddition /\ draft_schedule # NoFrame) =>
           /\ \A j \in batch(KindAdd) :
                 /\ req_chg'[j].status = StApproved
                 /\ req_chg[j].name \in FrameIndex(draft_schedule')
                 /\ draft_schedule'[req_chg[j].name]
                                   [ColLabel(req_chg[j].date.m, req_chg[j].date.d)] = "1"
           /\ \A j \in 1 .. Len(req_chg') :
                 (req_chg'[j].status = StApproved /\ req_chg[j].status # StApproved) =>
                     /\ j \in batch(KindAdd)
                     /\ draft_schedule'[req_chg[j].name]
                                       [ColLabel(req_chg[j].date.m, req_chg[j].date.d)] = "1"
           /\ cfg_phase' = PhaseReduction ]_vars

\* A merge has approved an addition request whose cell was at rest in the
\* published draft.
C5_Witness ==
    /\ msg = "Merged"
    /\ cfg_phase = PhaseReduction
    /\ \E j \in 1 .. Len(req_chg) :
          /\ req_chg[j].kind = KindAdd
          /\ req_chg[j].status = StApproved
          /\ draft_schedule[req_chg[j].name][ColLabel(req_chg[j].date.m, req_chg[j].date.d)] = "1"

\* The day's column of schedule df with the cell of nm put at rest passes the
\* checker under the plan.
FeasibleAtRest(df, plan, nm, date) ==
    check_daily_constraints(get_staff_list,
                            [ColumnDict(df, ColLabel(date.m, date.d)) EXCEPT ![nm] = "0"],
                            plan, date.d - 1)[1]

\* The k-th request of the last lottery's order.
Taken(k) == lottery.chg0[lottery.order[k]]

\* The request has a cell in schedule df and the cell is on duty.
OnDutyIn(df, r) ==
    /\ r.name \in FrameIndex(df)
    /\ ColLabel(r.date.m, r.date.d) \in FrameColumns(df)
    /\ df[r.name][ColLabel(r.date.m, r.date.d)] # "0"

\* The schedule after the first k requests, each judged on the schedule that
\* holds the flips of the requests before it.
RECURSIVE ScheduleAfter(_)
ScheduleAfter(k) ==
    IF k = 0 THEN lottery.df0
    ELSE LET prev == ScheduleAfter(k - 1)
             r    == Taken(k)
         IN  IF OnDutyIn(prev, r) /\ FeasibleAtRest(prev, lottery.req_map0, r.name, r.date)
             THEN [prev EXCEPT ![r.name][ColLabel(r.date.m, r.date.d)] = "0"]
             ELSE prev

\* C6 as the specification states it: each request taken in the shuffled order
\* whose cell is on duty is marked approved, with its cell set to rest, exactly
\* when the checker passes on the day's column with that cell at rest on the
\* schedule holding every earlier flip; otherwise it is marked rejected and the
\* cell stays on duty; the mark of an earlier request is not changed later.
C6_LotteryMarks ==
    (msg = "Finalized" /\ lottery.ran) =>
        /\ lottery.df1 = ScheduleAfter(Len(lottery.order))
        /\ \A k \in 1 .. Len(lottery.order) :
              LET prev == ScheduleAfter(k - 1)
                  r    == Taken(k)
              IN  OnDutyIn(prev, r) =>
                     IF FeasibleAtRest(prev, lottery.req_map0, r.name, r.date)
                     THEN /\ req_chg[lottery.order[k]].status = StApproved
                          /\ lottery.df1[r.name][ColLabel(r.date.m, r.date.d)] = "0"
                     ELSE /\ req_chg[lottery.order[k]].status = StRejected
                          /\ lottery.df1[r.name][ColLabel(r.date.m, r.date.d)] = "1"

\* Rows i and j of the batch are requests of two staff members for one day,
\* both on duty, each feasible alone and not both together, with no other
\* request of the batch for that day.
MutuallyExclusive(i, j) ==
    LET ri  == lottery.chg0[i]
        rj  == lottery.chg0[j]
        col == ColumnDict(lottery.df0, ColLabel(ri.date.m, ri.date.d))
    IN  /\ ri.name # rj.name
        /\ ri.date = rj.date
        /\ OnDutyIn(lottery.df0, ri)
        /\ OnDutyIn(lottery.df0, rj)
        /\ FeasibleAtRest(lottery.df0, lottery.req_map0, ri.name, ri.date)
        /\ FeasibleAtRest(lottery.df0, lottery.req_map0, rj.name, rj.date)
        /\ ~check_daily_constraints(get_staff_list,
                                    [col EXCEPT ![ri.name] = "0", ![rj.name] = "0"],
                                    lottery.req_map0, ri.date.d - 1)[1]
        /\ \A k \in 1 .. Len(lottery.order) :
              lottery.order[k] \notin {i, j} => Taken(k).date # ri.date

\* C7: of two mutually exclusive reduction requests for one day the lottery
\* approves exactly one and rejects the other, and the approved one is the
\* request that comes first in the processing order.
C7_FirstWins ==
    (msg = "Finalized" /\ lottery.ran) =>
        \A a, b \in 1 .. Len(lottery.order) :
            (a < b /\ MutuallyExclusive(lottery.order[a], lottery.order[b])) =>
                /\ Decided(lottery.order[a], TRUE)
                /\ ~Decided(lottery.order[a], FALSE)
                /\ Decided(lottery.order[b], FALSE)
                /\ ~Decided(lottery.order[b], TRUE)
                /\ lottery.df1[Taken(a).name][ColLabel(Taken(a).date.m, Taken(a).date.d)] = "0"
                /\ lottery.df1[Taken(b).name][ColLabel(Taken(b).date.m, Taken(b).date.d)] = "1"

\* The shuffle put the later-submitted of two mutually exclusive requests first
\* and the lottery approved it; the order of submission gives the other outcome.
C7_Witness ==
    /\ msg = "Finalized"
    /\ lottery.ran
    /\ \E a, b \in 1 .. Len(lottery.order) :
          /\ a < b
          /\ lottery.order[a] > lottery.order[b]
          /\ MutuallyExclusive(lottery.order[a], lottery.order[b])
          /\ Decided(lottery.order[a], TRUE)
          /\ Decided(lottery.order[b], FALSE)

\* C9: the staff-side filter and the lottery apply one predicate. A day is
\* offered for a reduction request exactly when the requester is on duty, has
\* no active reduction request for it, and the checker passes with the cell at
\* rest; and the request the lottery processes first, on the draft and plan the
\* filter saw, is approved exactly when that predicate holds for it.
C9_SamePredicate ==
    /\ (cfg_phase = PhaseReduction /\ draft_schedule # NoFrame) =>
          \A user_name \in StaffNames, col \in FrameColumns(draft_schedule) :
              col \in available_rest_options(user_name) <=>
                  /\ draft_schedule[user_name][col] = "1"
                  /\ ~\E j \in 1 .. Len(req_chg) :
                        /\ req_chg[j].name = user_name
                        /\ req_chg[j].kind = KindReduce
                        /\ req_chg[j].status # StCancelled
                        /\ req_chg[j].date = LabelDate(proc_year, col)
                  /\ FeasibleAtRest(draft_schedule, req_map, user_name, LabelDate(proc_year, col))
    /\ (msg = "Finalized" /\ lottery.ran /\ lottery.order # <<>>) =>
          (OnDutyIn(lottery.df0, Taken(1)) =>
              /\ Decided(lottery.order[1], TRUE) <=>
                    FeasibleAtRest(lottery.df0, lottery.req_map0, Taken(1).name, Taken(1).date)
              /\ Decided(lottery.order[1], FALSE) <=>
                    ~FeasibleAtRest(lottery.df0, lottery.req_map0, Taken(1).name, Taken(1).date))

\* The lottery processed first, and approved, a request for a day that the
\* filter offers on the draft the lottery started from; a second request followed.
C9_Witness ==
    /\ msg = "Finalized"
    /\ lottery.ran
    /\ Len(lottery.order) = 2
    /\ OnDutyIn(lottery.df0, Taken(1))
    /\ FeasibleAtRest(lottery.df0, lottery.req_map0, Taken(1).name, Taken(1).date)
    /\ Decided(lottery.order[1], TRUE)
    /\ Taken(1).date.d = 1

(***************************************************************************)
(* The checker on its own: check_daily_constraints applied to drawn inputs.*)
(***************************************************************************)
\* A staff record as get_staff_list returns it.
StaffRecord(nm, flags) ==
    [name |-> nm, role |-> "staff", en |-> flags[1], jp |-> flags[2], vet |-> flags[3],
     holiday_target |-> 1]

CheckRosters ==
    {<<StaffRecord("s1", f1), StaffRecord("s2", f2), StaffRecord("s3", <<FALSE, FALSE, v3>>),
       StaffRecord("s4", <<FALSE, FALSE, FALSE>>)>> :
        f1 \in BOOLEAN \X BOOLEAN \X BOOLEAN, f2 \in BOOLEAN \X BOOLEAN \X BOOLEAN, v3 \in BOOLEAN}

\* The day's column: a cell per staff member, or no cell for the last one.
CheckColumns ==
    [{"s1", "s2", "s3", "s4"} -> {"1", "0"}] \cup [{"s1", "s2", "s3"} -> {"1", "0"}]

\* The plan: none, an entry for day 0, or an entry for another day only.
CheckPlans == {EmptyMap} \cup {[d \in {0} |-> c] : c \in 0 .. MaxRequired} \cup {[d \in {1} |-> 1]}

CheckInputs == CheckRosters \X CheckColumns \X CheckPlans \X {NoDay, 0}

InitCheck ==
    /\ cdc_args \in CheckInputs
    /\ run_chg = NoRun
    /\ cdc_ret = <<>>
    /\ cfg_phase = PhaseNormal
    /\ system_phase = PhaseNormal
    /\ proc_year = 2026
    /\ proc_month = 2
    /\ num_days = NumDays
    /\ draft_schedule = NoFrame
    /\ draft_requirements = <<>>
    /\ edited_req_df = InitialEdited(draft_requirements, 2026, 2, NumDays)
    /\ req_chg = <<>>
    /\ req_off = <<>>
    /\ log_sheet = <<>>
    /\ master_staff = Roster
    /\ master_ph = {}
    /\ master_log = <<>>
    /\ req_off_data = <<>>
    /\ schedule_df = NoFrame
    /\ solves = 0
    /\ req_holidays_in = 0
    /\ daily_reqs = <<>>
    /\ msg = "Login"
    /\ lottery = NoLottery
    /\ store_faulty = FALSE
    /\ faults = 0

\* One call of check_daily_constraints (app.py:317-335).
CheckDay ==
    /\ cdc_ret = <<>>
    /\ cdc_ret' = check_daily_constraints(cdc_args[1], cdc_args[2], cdc_args[3], cdc_args[4])
    /\ UNCHANGED <<store_vars, session_vars, msg, lottery, store_faulty, faults, cdc_args,
                   run_chg>>

NextCheck == CheckDay

SpecCheck == InitCheck /\ [][NextCheck]_vars

\* The staff of the call who are on duty in the column, and those of them
\* holding a given skill.
OnDutyOfCall == {i \in 1 .. Len(cdc_args[1]) :
                    /\ cdc_args[1][i].name \in DOMAIN cdc_args[2]
                    /\ cdc_args[2][cdc_args[1][i].name] = "1"}

MinimumOfCall ==
    IF cdc_args[4] # NoDay /\ cdc_args[4] \in DOMAIN cdc_args[3]
    THEN cdc_args[3][cdc_args[4]] ELSE 4

EnoughOfCall == Cardinality(OnDutyOfCall) >= MinimumOfCall

EnOfCall == \E i \in OnDutyOfCall : cdc_args[1][i].en

JpOfCall == \E i \in OnDutyOfCall : cdc_args[1][i].jp

VetOfCall == \E i \in OnDutyOfCall : cdc_args[1][i].vet

\* C8 as the specification states it: the checker passes exactly when the
\* on-duty count is at least the day's minimum (4 without a plan entry) and an
\* English speaker, a Japanese speaker and a veteran are on duty; a failure
\* names the first unmet condition in the order understaffed, English,
\* Japanese, veteran, so with neither language covered it names English.
C8_ReasonOrder ==
    cdc_ret # <<>> =>
        /\ cdc_ret[1] <=> (EnoughOfCall /\ EnOfCall /\ JpOfCall /\ VetOfCall)
        /\ cdc_ret[2] = IF ~EnoughOfCall THEN ReasonUnderstaffed
                        ELSE IF ~EnOfCall THEN ReasonEn
                        ELSE IF ~JpOfCall THEN ReasonJp
                        ELSE IF ~VetOfCall THEN ReasonVet
                        ELSE ReasonOK

\* C8 (amended): the same pass condition; a failure names the first unmet
\* condition in the order understaffed, Japanese, English, veteran, so with
\* neither language covered it names the missing Japanese speaker.
C8_CheckerResult ==
    cdc_ret # <<>> =>
        /\ cdc_ret[1] <=> (EnoughOfCall /\ EnOfCall /\ JpOfCall /\ VetOfCall)
        /\ cdc_ret[2] = IF ~EnoughOfCall THEN ReasonUnderstaffed
                        ELSE IF ~JpOfCall THEN ReasonJp
                        ELSE IF ~EnOfCall THEN ReasonEn
                        ELSE IF ~VetOfCall THEN ReasonVet
                        ELSE ReasonOK

\* A call with enough staff on duty, a veteran among them and neither language
\* covered has failed, naming the Japanese speaker.
C8_Witness ==
    /\ cdc_ret = <<FALSE, ReasonJp>>
    /\ EnoughOfCall
    /\ ~EnOfCall
    /\ ~JpOfCall
    /\ VetOfCall
    /\ MinimumOfCall = 4

(***************************************************************************)
(* The solver on its own: Solve applied to drawn months, plans, holidays,  *)
(* leave requests and history.                                             *)
(***************************************************************************)
SolvePlans ==
    {[d \in 0 .. (SolveDays - 1) |-> c] : c \in 0 .. 2}
        \cup {[d \in 0 .. (SolveDays - 1) |-> IF d = 3 THEN DefaultRequired ELSE 1]}

\* A log of earlier days: the last two days before the month, on which s2
\* rested, and a stale row of the target month.
SolveLog(year, month, nd) ==
    << [date |-> MinusDays([y |-> year, m |-> month, d |-> 1], 2, nd),
        cells |-> [nm \in {"s1", "s2", "s3"} |-> IF nm = "s2" THEN "0" ELSE "1"]],
       [date |-> MinusDays([y |-> year, m |-> month, d |-> 1], 1, nd),
        cells |-> [nm \in {"s1", "s2", "s3"} |-> IF nm = "s2" THEN "0" ELSE "1"]],
       [date |-> [y |-> year, m |-> month, d |-> 1],
        cells |-> [nm \in {"s1", "s2", "s3"} |-> "0"]] >>

\* The leave-request sheet: empty, one request (for day 2, or for day 4, which
\* may be a public holiday and is the forced day of January), or a cancelled
\* and a live one.
SolveLeave(year, month) ==
    { <<>>,
      << [name |-> "s2", date |-> [y |-> year, m |-> month, d |-> 2], status |-> StRequested] >>,
      << [name |-> "s2", date |-> [y |-> year, m |-> month, d |-> 4], status |-> StRequested] >>,
      << [name |-> "s3", date |-> [y |-> year, m |-> month, d |-> 1], status |-> StCancelled],
         [name |-> "s1", date |-> [y |-> year, m |-> month, d |-> 3], status |-> StRequested] >> }

\* The staff master of a solve.  The annual target only enters a December
\* solve: there s1 still has two rest days to take, and s3 may have more left
\* than the month has days.
SolveRosters(month) ==
    IF month = 12
    THEN {Roster,
          [Roster EXCEPT ![1].holiday_target = 2],
          [Roster EXCEPT ![1].holiday_target = 2, ![4].holiday_target = SolveDays + 2]}
    ELSE {Roster}

\* The public-holiday master of a solve: none, the first day, the fourth day,
\* or, in December, a clinic closed for the whole month.
SolveHolidays(year, month, nd) ==
    {{}, {[y |-> year, m |-> month, d |-> 1]}, {[y |-> year, m |-> month, d |-> 4]}}
      \cup (IF month = 12 THEN {{[y |-> year, m |-> month, d |-> k] : k \in 1 .. nd}} ELSE {})

InitSolve ==
    /\ cfg_phase = PhaseNormal
    /\ system_phase = PhaseNormal
    /\ proc_year = 2026
    /\ proc_month \in {1, 2, 12}
    /\ num_days = SolveDays
    /\ draft_schedule = NoFrame
    /\ draft_requirements = <<>>
    /\ edited_req_df \in SolvePlans
    /\ req_chg = <<>>
    /\ req_off \in SolveLeave(2026, proc_month)
    /\ req_off_data = req_off
    /\ log_sheet \in {<<>>, SolveLog(2026, proc_month, SolveDays)}
    /\ master_log = log_sheet
    /\ master_staff \in SolveRosters(proc_month)
    /\ master_ph \in SolveHolidays(2026, proc_month, SolveDays)
    /\ schedule_df = NoFrame
    /\ solves = MaxSolves - SolverSolves
    /\ req_holidays_in = 0
    /\ daily_reqs = <<>>
    /\ msg = "Login"
    /\ lottery = NoLottery
    /\ store_faulty = FALSE
    /\ faults = 0
    /\ cdc_args = <<>>
    /\ run_chg = NoRun
    /\ cdc_ret = <<>>

NextSolve == Solve

SpecSolve == InitSolve /\ [][NextSolve]_vars

\* The staff on duty on day index d of the schedule the solver returned.
OnDutyCount(d) ==
    Cardinality({nm \in FrameIndex(schedule_df) : schedule_df[nm][ColLabel(proc_month, d + 1)] = 1})

InRange(d) ==
    /\ Get(edited_req_df, d, 4) <= OnDutyCount(d)
    /\ OnDutyCount(d) <= Get(edited_req_df, d, 4) + 2

\* C10 as the specification states it: in every schedule the solver accepts,
\* for every month, the on-duty count of every non-holiday day lies between
\* the day's planned minimum and that minimum plus 2.
C10_EveryDayInRange ==
    (msg = "SolveDone" /\ schedule_df # NoFrame) =>
        \A d \in all_days : d \notin ph_indices => InRange(d)

\* C10 (amended): in every schedule the solver accepts the on-duty count of
\* every non-holiday day lies between the planned minimum and that minimum
\* plus 2, except on 4 January, where, unless it is a holiday, every staff
\* member is on duty whatever the plan says.
C10_DayInRange ==
    (msg = "SolveDone" /\ schedule_df # NoFrame) =>
        \A d \in all_days :
            d \notin ph_indices =>
                IF proc_month = 1 /\ d = 3
                THEN OnDutyCount(d) = Len(staffs)
                ELSE InRange(d)

\* A January schedule was accepted in which 4 January, not a holiday, has all
\* staff on duty, more than the plan's minimum plus 2, next to a day in range.
C10_Witness ==
    /\ msg = "SolveDone"
    /\ schedule_df # NoFrame
    /\ proc_month = 1
    /\ 3 \notin ph_indices
    /\ OnDutyCount(3) = Len(staffs)
    /\ OnDutyCount(3) > Get(edited_req_df, 3, 4) + 2
    /\ InRange(0)

\* The roster rows of the staff on duty on day index d of the solver's result.
OnDutyRows(d) ==
    {i \in 1 .. Len(master_staff) :
        /\ master_staff[i].role = "staff"
        /\ master_staff[i].name \in FrameIndex(schedule_df)
        /\ schedule_df[master_staff[i].name][ColLabel(proc_month, d + 1)] = 1}

\* C11: in every schedule the solver accepts, on every non-holiday day the
\* staff on duty include an English speaker, a Japanese speaker and a veteran.
C11_Coverage ==
    (msg = "SolveDone" /\ schedule_df # NoFrame) =>
        \A d \in all_days :
            d \notin ph_indices =>
                /\ \E i \in OnDutyRows(d) : master_staff[i].en
                /\ \E i \in OnDutyRows(d) : master_staff[i].jp
                /\ \E i \in OnDutyRows(d) : master_staff[i].vet

\* A January schedule was accepted in which 4 January is not a holiday and some
\* other non-holiday day is covered by fewer than all staff.
C11_Witness ==
    /\ msg = "SolveDone"
    /\ schedule_df # NoFrame
    /\ proc_month = 1
    /\ 3 \notin ph_indices
    /\ \E i \in OnDutyRows(3) : master_staff[i].vet
    /\ \E d \in all_days \ ph_indices : Cardinality(OnDutyRows(d)) < Len(staffs)

\* The duty (1) or rest (0) of staff nm on day index d of the month, or, for
\* d < 0, on the day -d days before the month as the log records it (first
\* row of that date; no row or no column counts as rest).
DutyAt(nm, d) ==
    IF d >= 0 THEN schedule_df[nm][ColLabel(proc_month, d + 1)]
    ELSE LET td == MinusDays([y |-> proc_year, m |-> proc_month, d |-> 1], -d, num_days)
             r  == SelectSeq(master_log, LAMBDA row : row.date = td)
         IN  IF r # <<>> /\ nm \in DOMAIN r[1].cells THEN CellInt(r[1].cells[nm]) ELSE 0

WindowDuty(nm, start) ==
    DutyAt(nm, start) + DutyAt(nm, start + 1) + DutyAt(nm, start + 2)
      + DutyAt(nm, start + 3) + DutyAt(nm, start + 4)

C13_NoIsolatedDay ==
    (msg = "SolveDone" /\ schedule_df # NoFrame) =>
        \A nm \in FrameIndex(schedule_df) :
            \A d \in 1 .. (num_days - 2) :
                (~(proc_month = 1 /\ d = 3) /\ DutyAt(nm, d) = 1) =>
                    (DutyAt(nm, d - 1) = 1 \/ DutyAt(nm, d + 1) = 1)

\* An accepted January schedule in which a staff member works the exempt day
\* with rest on both sides, and a staff member works another interior day next
\* to a rest day.
C13_Witness ==
    /\ msg = "SolveDone"
    /\ schedule_df # NoFrame
    /\ proc_month = 1
    /\ \E nm \in FrameIndex(schedule_df) :
          DutyAt(nm, 3) = 1 /\ DutyAt(nm, 2) = 0 /\ DutyAt(nm, 4) = 0
    /\ \E nm \in FrameIndex(schedule_df) :
          \E d \in (1 .. (num_days - 2)) \ {3} :
              DutyAt(nm, d) = 1 /\ DutyAt(nm, d - 1) + DutyAt(nm, d + 1) = 1

\* The number of rest days of staff nm in the month of the solver's result.
RestDays(nm) == Cardinality({d \in all_days : DutyAt(nm, d) = 0})

\* C14: in a solve for a month other than December, every accepted schedule
\* gives each staff member a number of rest days r in the month, public
\* holidays included, with target <= r <= target + 1, where target is the
\* required holiday count the administrator entered.
C14_MonthlyQuota ==
    (msg = "SolveDone" /\ schedule_df # NoFrame /\ proc_month # 12) =>
        \A nm \in FrameIndex(schedule_df) :
            /\ req_holidays_in <= RestDays(nm)
            /\ RestDays(nm) <= req_holidays_in + 1

\* An accepted schedule of a month with a public holiday and a positive target
\* in which one staff member rests exactly the target and another one day more.
C14_Witness ==
    /\ msg = "SolveDone"
    /\ schedule_df # NoFrame
    /\ proc_month # 12
    /\ req_holidays_in > 0
    /\ ph_indices # {}
    /\ \E nm \in FrameIndex(schedule_df) : RestDays(nm) = req_holidays_in
    /\ \E nm \in FrameIndex(schedule_df) : RestDays(nm) = req_holidays_in + 1

\* The annual target of staff nm in the staff master.
AnnualTarget(nm) == staffs[staff_name_to_index(nm)].holiday_target

\* The rest days the log records for staff nm in the year of the solve: in any
\* month, and in the months other than the target month.
LoggedRest(nm) ==
    Len(SelectSeq(master_log, LAMBDA row :
          row.date.y = proc_year /\ nm \in DOMAIN row.cells /\ row.cells[nm] = "0"))

LoggedRestOtherMonths(nm) ==
    Len(SelectSeq(master_log, LAMBDA row :
          /\ row.date.y = proc_year
          /\ row.date.m # proc_month
          /\ nm \in DOMAIN row.cells
          /\ row.cells[nm] = "0"))

Max0(n) == IF n > 0 THEN n ELSE 0

\* C15 as the specification states it: in a December solve every accepted
\* schedule gives each staff member at least max(0, annual_target -
\* already_taken) rest days, already_taken being the rest days logged for the
\* staff member in the same year.
C15_YearEndQuota ==
    (msg = "SolveDone" /\ schedule_df # NoFrame /\ proc_month = 12) =>
        \A nm \in FrameIndex(schedule_df) :
            RestDays(nm) >= Max0(AnnualTarget(nm) - LoggedRest(nm))

\* C15, amended: in a December solve every accepted schedule gives each staff
\* member at least min(days of the month, max(0, annual_target -
\* already_taken)) rest days, already_taken being the rest days logged for the
\* staff member in the other months of the same year; the required amount is
\* never negative.
C15_YearEndQuotaCapped ==
    (msg = "SolveDone" /\ schedule_df # NoFrame /\ proc_month = 12) =>
        \A nm \in FrameIndex(schedule_df) :
            LET rem == Max0(AnnualTarget(nm) - LoggedRestOtherMonths(nm))
            IN  RestDays(nm) >= (IF rem < num_days THEN rem ELSE num_days)

\* An accepted December schedule in which one staff member had two rest days
\* left and rests exactly two, and another had already exceeded the target.
C15_Witness ==
    /\ msg = "SolveDone"
    /\ schedule_df # NoFrame
    /\ proc_month = 12
    /\ ph_indices = {}
    /\ \E nm \in FrameIndex(schedule_df) :
          /\ AnnualTarget(nm) - LoggedRestOtherMonths(nm) = 2
          /\ RestDays(nm) = 2
    /\ \E nm \in FrameIndex(schedule_df) :
          AnnualTarget(nm) - LoggedRestOtherMonths(nm) < 0

\* The leave requests the solve honours: not cancelled, dated in the target
\* month, naming a staff member of the schedule.
LiveLeave ==
    {k \in 1 .. Len(req_off_data) :
        /\ req_off_data[k].status # StCancelled
        /\ req_off_data[k].date.y = proc_year
        /\ req_off_data[k].date.m = proc_month
        /\ req_off_data[k].name \in FrameIndex(schedule_df)}

\* Day index d meets the plan minimum and the three coverage requirements.
DayCovered(d) ==
    /\ Cardinality(OnDutyRows(d)) >= Get(edited_req_df, d, 4)
    /\ \E i \in OnDutyRows(d) : master_staff[i].en
    /\ \E i \in OnDutyRows(d) : master_staff[i].jp
    /\ \E i \in OnDutyRows(d) : master_staff[i].vet

\* C16 as the specification states it: for every leave request of the target
\* month that is not cancelled and names a schedulable staff member X and a day
\* d, every accepted schedule has X at rest on d, and day d meets the plan
\* minimum and the three coverage requirements with the remaining staff.
C16_LeaveDayCovered ==
    (msg = "SolveDone" /\ schedule_df # NoFrame) =>
        \A k \in LiveLeave :
            /\ DutyAt(req_off_data[k].name, req_off_data[k].date.d - 1) = 0
            /\ DayCovered(req_off_data[k].date.d - 1)

\* C16, amended: for every such leave request, every accepted schedule has X
\* at rest on d, and, when d is not a public holiday, day d meets the plan
\* minimum and the three coverage requirements with the remaining staff.
C16_LeaveHonoured ==
    (msg = "SolveDone" /\ schedule_df # NoFrame) =>
        \A k \in LiveLeave :
            /\ DutyAt(req_off_data[k].name, req_off_data[k].date.d - 1) = 0
            /\ (req_off_data[k].date.d - 1) \notin ph_indices =>
                   DayCovered(req_off_data[k].date.d - 1)

\* An accepted schedule with a live leave request on a working day, a positive
\* plan minimum for that day, and a cancelled request whose author is on duty
\* on the day it named.
C16_Witness ==
    /\ msg = "SolveDone"
    /\ schedule_df # NoFrame
    /\ \E k \in LiveLeave :
          /\ (req_off_data[k].date.d - 1) \notin ph_indices
          /\ Get(edited_req_df, req_off_data[k].date.d - 1, 4) > 0
          /\ DutyAt(req_off_data[k].name, req_off_data[k].date.d - 1) = 0
    /\ \E k \in 1 .. Len(req_off_data) :
          /\ req_off_data[k].status = StCancelled
          /\ DutyAt(req_off_data[k].name, req_off_data[k].date.d - 1) = 1

\* The column labels of the public holidays of the target month.
HolidayLabels == {ColLabel(proc_month, h + 1) : h \in ph_indices \cap all_days}

\* C17: in every reachable state of the schedule matrix (as solved, as
\* published, after the addition merge, after the lottery, and as folded into
\* the log) the column of every public holiday is all rest.
C17_HolidaysAllRest ==
    /\ schedule_df # NoFrame =>
          \A nm \in FrameIndex(schedule_df) : \A col \in HolidayLabels :
              schedule_df[nm][col] = 0
    /\ draft_schedule # NoFrame =>
          \A nm \in FrameIndex(draft_schedule) : \A col \in HolidayLabels :
              draft_schedule[nm][col] = "0"
    /\ \A k \in 1 .. Len(log_sheet) :
          log_sheet[k].date \in master_ph =>
              \A nm \in DOMAIN log_sheet[k].cells : log_sheet[k].cells[nm] = "0"

\* The rows of a log dated outside the target month, in their order.
OtherMonthRows(log) ==
    SelectSeq(log, LAMBDA r : ~(r.date.y = proc_year /\ r.date.m = proc_month))

SortedByDate(log) ==
    \A i, j \in 1 .. Len(log) : i < j => ~DateLess(log[j].date, log[i].date)

\* C18: a fold of a matrix for the month M into the log removes exactly the
\* existing rows dated within M, adds the new rows, leaves every row of any
\* other month unchanged, and stores the result sorted ascending by date.
C18_FoldReplacesMonth ==
    [][(msg' = "Finalized" /\ log_sheet' # log_sheet) =>
          /\ OtherMonthRows(log_sheet') = OtherMonthRows(log_sheet)
          /\ MonthRows(log_sheet') = new_logs(lottery'.df1)
          /\ SortedByDate(log_sheet')]_vars

\* C19: once a change request is approved or rejected its status never changes
\* again (no later cancellation by its author, addition merge or lottery run
\* overwrites it), and no operation removes a change-request row.
C19_DecisionsFinal ==
    [][/\ Len(req_chg') >= Len(req_chg)
       /\ \A j \in 1 .. Len(req_chg) :
             /\ req_chg'[j].ts = req_chg[j].ts
             /\ req_chg'[j].name = req_chg[j].name
             /\ req_chg'[j].date = req_chg[j].date
             /\ req_chg'[j].kind = req_chg[j].kind
             /\ req_chg[j].status \in {StApproved, StRejected} =>
                   req_chg'[j].status = req_chg[j].status]_vars

\* C20: a leave-request submission appends a row to the leave-request table
\* only while the phase is Normal; in the addition phase and in the reduction
\* phase a submission appends no row.
C20_LeaveOnlyInNormal ==
    [][Len(req_off') > Len(req_off) => cfg_phase = PhaseNormal]_vars

\* C21: when a solve attempt ends with a status other than OPTIMAL or FEASIBLE
\* the attempt reports failure and yields no schedule: after the failed attempt
\* the session holds no unsaved schedule that can be displayed as the result
\* or published as the draft.
C21_FailedSolveNoSchedule ==
    msg = "SolveFailed" => schedule_df = NoFrame

\* The reduction requests of the target month that are still pending.
PendingReductions ==
    {j \in 1 .. Len(req_chg) :
        /\ req_chg[j].date.y = proc_year
        /\ req_chg[j].date.m = proc_month
        /\ req_chg[j].kind = KindReduce
        /\ req_chg[j].status = StRequested}

\* C22: when finalization runs with no pending reduction request for the
\* target month, the lottery changes no schedule cell and no change-request
\* status, and the matrix folded into the log equals the persisted draft cell
\* for cell.
C22_EmptyBatch ==
    [][(msg' = "Finalized" /\ draft_schedule # NoFrame /\ lottery'.ran
          /\ PendingReductions = {}) =>
          /\ req_chg' = req_chg
          /\ lottery'.df1 = draft_schedule
          /\ Len(MonthRows(log_sheet')) = num_days
          /\ \A k \in 1 .. Len(MonthRows(log_sheet')) :
                \A nm \in FrameIndex(draft_schedule) :
                    MonthRows(log_sheet')[k].cells[nm]
                      = draft_schedule[nm][ColLabel(proc_month, k)]]_vars

\* A finalization ran with no pending reduction request while the sheet held a
\* cancelled reduction request and an approved addition request.
C22_Witness ==
    /\ msg = "Finalized"
    /\ lottery.ran
    /\ lottery.order = <<>>
    /\ req_chg = lottery.chg0
    /\ \E j \in 1 .. Len(req_chg) :
          req_chg[j].kind = KindReduce /\ req_chg[j].status = StCancelled
    /\ \E j \in 1 .. Len(req_chg) :
          req_chg[j].kind = KindAdd /\ req_chg[j].status = StApproved

\* The k-th request of the last lottery's order was skipped: its name or its
\* column is not in the draft, or its cell was already rest when it was taken.
SkippedAt(k) == ~OnDutyIn(ScheduleAfter(k - 1), Taken(k))

\* C23: a reduction request whose target cell is already rest when it is
\* processed, or whose staff name or date column is not in the draft, is
\* skipped: its status stays requested, no schedule cell changes, and it is
\* counted neither as approved nor as rejected.
C23_SkippedStaysRequested ==
    (msg = "Finalized" /\ lottery.ran) =>
        /\ lottery.df1 = ScheduleAfter(Len(lottery.order))
        /\ \A k \in 1 .. Len(lottery.order) :
              SkippedAt(k) =>
                 /\ req_chg[lottery.order[k]].status = StRequested
                 /\ \A e \in 1 .. Len(lottery.logs) : lottery.logs[e].row # lottery.order[k]

\* The column col of schedule df passes the checker under the plan of the last
\* lottery.
DayPasses(df, col) ==
    check_daily_constraints(get_staff_list, ColumnDict(df, col), lottery.req_map0, col[2] - 1)[1]

\* The staff on duty in column col of schedule df.
OnDutyInColumn(df, col) == {nm \in FrameIndex(df) : df[nm][col] = "1"}

\* The requests the last lottery approved for the day of column col.
ApprovedFor(col) ==
    {e \in 1 .. Len(lottery.logs) :
        /\ lottery.logs[e].ok
        /\ ColLabel(lottery.chg0[lottery.logs[e].row].date.m,
                    lottery.chg0[lottery.logs[e].row].date.d) = col}

\* C24: for every shuffle order, every day that passed the checker before the
\* lottery still passes it after the lottery, and on each such day the number
\* of reductions the lottery approved is at most the initial on-duty count
\* minus the day's plan minimum.
C24_FeasibilityKept ==
    (msg = "Finalized" /\ lottery.ran) =>
        \A col \in FrameColumns(lottery.df0) :
            DayPasses(lottery.df0, col) =>
                /\ DayPasses(lottery.df1, col)
                /\ Cardinality(ApprovedFor(col))
                     <= Cardinality(OnDutyInColumn(lottery.df0, col))
                          - Get(lottery.req_map0, col[2] - 1, 4)

\* A lottery took two requests of two staff members for one day that had slack
\* for one: it approved exactly one and rejected the other.
C24_Witness ==
    /\ msg = "Finalized"
    /\ lottery.ran
    /\ Len(lottery.order) = 2
    /\ \E col \in FrameColumns(lottery.df0) :
          /\ DayPasses(lottery.df0, col)
          /\ Cardinality(OnDutyInColumn(lottery.df0, col))
               - Get(lottery.req_map0, col[2] - 1, 4) = 1
          /\ Cardinality(ApprovedFor(col)) = 1
          /\ \E e \in 1 .. Len(lottery.logs) :
                /\ ~lottery.logs[e].ok
                /\ lottery.logs[e].reason # "OK"
                /\ ColLabel(lottery.chg0[lottery.logs[e].row].date.m,
                            lottery.chg0[lottery.logs[e].row].date.d) = col

\* C25: each lottery decision is recorded on the request it was made for: after
\* the lottery a change-request row has its status changed to approved or
\* rejected only if that very row was processed with that outcome, also when
\* two rows carry the same timestamp.
C25_DecisionOnItsRow ==
    (msg = "Finalized" /\ lottery.ran) =>
        \A j \in 1 .. Len(lottery.chg0) :
            (req_chg[j].status \in {StApproved, StRejected}
               /\ req_chg[j].status # lottery.chg0[j].status) =>
                Decided(j, req_chg[j].status = StApproved)

\* C26: for every day of the target month the plan minimum the checker uses in
\* request filtering and in the lottery equals the plan minimum the solver used
\* to build the published draft, also when the administrator edited the plan
\* and solved without saving it; hence no approved reduction takes a day below
\* the minimum the solver enforced.
C26_SamePlan ==
    /\ (draft_schedule # NoFrame /\ daily_reqs # <<>>) =>
          \A d \in all_days :
              Get(req_map, d, DefaultRequired) = Get(daily_reqs, d, DefaultRequired)
    /\ (msg = "Finalized" /\ lottery.ran /\ daily_reqs # <<>>) =>
          \A col \in FrameColumns(lottery.df1) :
              ApprovedFor(col) # {} =>
                  Cardinality(OnDutyInColumn(lottery.df1, col))
                    >= Get(daily_reqs, col[2] - 1, DefaultRequired)

\* C27: with two administrator sessions, whenever a merge of the additions or a
\* finalize executes, the persisted phase at that moment is the phase the
\* operation requires (the gate never passes on a stale session copy), and
\* after the phase selector's update_single_config the session's phase equals
\* the persisted phase.
C27_GateOnPersistedPhase ==
    [][/\ (MergeAdditions /\ Phase1Gate /\ draft_schedule # NoFrame)
            => cfg_phase = PhaseAddition
       /\ (Finalize /\ Phase2Gate /\ draft_schedule # NoFrame)
            => cfg_phase = PhaseReduction
       /\ PhaseSelector => system_phase' = cfg_phase']_vars

\* C28: a change request that a staff member appended or cancelled between the
\* administrator's read of the change-request table and the write-back of that
\* table is not lost: after the write-back the appended row is still in the
\* sheet and the cancelled row is still cancelled.
C28_NoLostRequest ==
    [][MergeWrite =>
          /\ Len(req_chg') >= Len(req_chg)
          /\ \A j \in 1 .. Len(req_chg) :
                /\ j > Len(run_chg[1]) => req_chg'[j] = req_chg[j]
                /\ (j <= Len(run_chg[1]) /\ req_chg[j].status = StCancelled)
                      => req_chg'[j].status = StCancelled]_vars

\* The last lottery changed only cells of requests it approved, from duty to rest.
LotteryCellsOnlyApproved ==
    \A nm \in FrameIndex(lottery.df0) : \A col \in FrameColumns(lottery.df0) :
        lottery.df1[nm][col] # lottery.df0[nm][col] =>
            /\ lottery.df0[nm][col] = "1"
            /\ lottery.df1[nm][col] = "0"
            /\ \E e \in ApprovedFor(col) : lottery.chg0[lottery.logs[e].row].name = nm

\* The rows of the change-request table the last lottery took as its batch.
LotteryBatch == {lottery.order[k] : k \in 1 .. Len(lottery.order)}

\* C29: the lottery changes only the schedule cells of approved reduction
\* requests, each from duty to rest; the cells of rejected and skipped requests
\* and every other cell stay as they were, and the status of every request
\* outside the processed batch is unchanged.
C29_LotteryFrame ==
    (msg = "Finalized" /\ lottery.ran) =>
        /\ FrameIndex(lottery.df1) = FrameIndex(lottery.df0)
        /\ LotteryCellsOnlyApproved
        /\ Len(req_chg) = Len(lottery.chg0)
        /\ \A j \in 1 .. Len(lottery.chg0) :
              j \notin LotteryBatch => req_chg[j] = lottery.chg0[j]

\* After a lottery only cells of approved requests have changed.
LotteryCellsPart ==
    (msg = "Finalized" /\ lottery.ran) => LotteryCellsOnlyApproved

\* C30: the target year and month do not change between publishing a draft and
\* finalizing it: while a draft is published they stay as they are, and a
\* finalization folds and adjudicates under the month of the draft's columns.
C30_TargetFixed ==
    [][/\ draft_schedule # NoFrame =>
            (proc_year' = proc_year /\ proc_month' = proc_month)
       /\ (msg' = "Finalized" /\ lottery'.ran) =>
            \A col \in FrameColumns(draft_schedule) : col[1] = proc_month]_vars

====
